---- MODULE Spec2Model ----
(***************************************************************************)
(* Model of the SCD4x Sensirion driver, class SCD4xSensirion of            *)
(* scd4x_sensirion.py: the session (address, check_crc, mode flags) and    *)
(* every method of the class as one action.  A call is observed through    *)
(* the sequence of bus events it makes (adapter.write, utime.sleep_ms,     *)
(* adapter.read, in program order) and through what it returns or raises.  *)
(* The bus adapter is the environment: a write succeeds or raises, a read  *)
(* raises or returns at most the number of bytes asked for.                *)
(***************************************************************************)
EXTENDS Integers, Sequences, FiniteSets, TLC

VARIABLES
    address,            \* self.address: the 7-bit bus address of the sensor
    check_crc,          \* self.check_crc
    _low_power_mode,    \* self._low_power_mode
    _single_shot_mode,  \* self._single_shot_mode
    n_calls,            \* number of method calls made on the session so far
    op,                 \* name of the method called last ("" before any call)
    args,               \* the arguments of that call, as a sequence
    bus,                \* the bus events of that call, in program order
    result              \* what that call returned or raised

vars == <<address, check_crc, _low_power_mode, _single_shot_mode,
          n_calls, op, args, bus, result>>

(***************************************************************************)
(* Bounds of the model.                                                    *)
(***************************************************************************)
\* Largest number of method calls in one behaviour.
MaxCalls == 2
\* Largest number of 16-bit words in a payload handed to _send_command.
MaxWords == 2

(***************************************************************************)
(* Bytes, words and the checksum.                                          *)
(***************************************************************************)
\* Bitwise exclusive or of two bytes (Python's ^).
Xor8(a, b) ==
    LET bit(i) == ((a \div (2 ^ i)) + (b \div (2 ^ i))) % 2
    IN  bit(0) + 2 * bit(1) + 4 * bit(2) + 8 * bit(3) + 16 * bit(4)
        + 32 * bit(5) + 64 * bit(6) + 128 * bit(7)

\* k rounds of the CRC-8 shift register, most significant bit first.
crc8_bits[crc \in 0..255, polynomial \in 0..255, k \in 0..8] ==
    IF k = 0 THEN crc
    ELSE crc8_bits[IF crc >= 128
                   THEN Xor8((crc * 2) % 256, polynomial)
                   ELSE (crc * 2) % 256,
                   polynomial, k - 1]

\* sensor_pack.crc_mod.crc8: CRC-8 of a byte sequence, no reflection, no
\* final exclusive or.
crc8(sequence, polynomial, init_value) ==
    LET crc[i \in 0..Len(sequence)] ==
            IF i = 0 THEN init_value
            ELSE crc8_bits[Xor8(crc[i - 1], sequence[i]), polynomial, 8]
    IN  crc[Len(sequence)]

\* SCD4xSensirion._calc_crc: polynomial 0x31, initial value 0xFF.
_calc_crc(sequence) == crc8(sequence, 49, 255)

\* int.to_bytes(length, "big") of a value that fits; of one that does not,
\* the low bytes (what an interpreter without the overflow check produces).
to_bytes(value, length) ==
    IF length = 1 THEN <<value % 256>>
    ELSE <<(value \div 256) % 256, value % 256>>

\* Whether int.to_bytes(length, "big") cannot represent the value.
to_bytes_overflows(value, length) ==
    value < 0 \/ value >= (IF length = 1 THEN 256 ELSE 65536)

\* BaseSensor.unpack("H", b)[0] of a big-endian session (the constructor
\* passes True for big endian): the 16-bit word held by the first two bytes.
\* The methods hand it the whole 3-byte response; MicroPython's struct.unpack
\* takes a buffer longer than the format and reads its first bytes.
unpack_H(b) == b[1] * 256 + b[2]

\* base_sensor.check_value(value, valid_range, error_msg): TRUE when the value
\* is accepted, FALSE when the call raises ValueError(error_msg).
check_value(value, valid_range) == value \in valid_range

(***************************************************************************)
(* Python values returned by the methods.                                  *)
(***************************************************************************)
NoneVal == [t |-> "None"]
IntVal(i) == [t |-> "int", v |-> i]
BoolVal(b) == [t |-> "bool", v |-> b]
TupleVal(s) == [t |-> "tuple", v |-> s]
BytesVal(s) == [t |-> "bytes", v |-> s]
\* A float, kept exact as the fraction num / den.
FloatVal(num, den) == [t |-> "float", num |-> num, den |-> den]

\* Python's truth value of a returned value (bool(x)).
Truthy(x) ==
    CASE x.t = "bool" -> x.v
      [] x.t = "int" -> x.v # 0
      [] x.t = "float" -> x.num # 0
      [] x.t = "tuple" -> x.v # <<>>
      [] x.t = "bytes" -> x.v # <<>>
      [] OTHER -> FALSE

(***************************************************************************)
(* The session and the bus.                                                *)
(***************************************************************************)
\* The attributes of the session object.
self == [address |-> address, check_crc |-> check_crc,
         _low_power_mode |-> _low_power_mode,
         _single_shot_mode |-> _single_shot_mode]

\* SCD4xSensirion._write: one adapter.write(self.address, buf); ok is FALSE
\* when the adapter raises.
_write(buf, ok) ==
    [ev |-> "write", addr |-> address, data |-> buf, n |-> 0, ms |-> 0, ok |-> ok]

\* SCD4xSensirion._read: one adapter.read(self.address, n_bytes), with the
\* bytes the adapter returned; ok is FALSE when the adapter raises.
_read(n_bytes, returned, ok) ==
    [ev |-> "read", addr |-> address, data |-> returned, n |-> n_bytes, ms |-> 0,
     ok |-> ok]

\* utime.sleep_ms(ms); utime.sleep(s) is sleep_ms(1000 * s).
sleep_ms(ms) ==
    [ev |-> "sleep", addr |-> 0, data |-> <<>>, n |-> 0, ms |-> ms, ok |-> TRUE]

\* A call that ends by raising: the events made so far, the exception.
Raised(events, error) ==
    [bus |-> events, self |-> self,
     result |-> [status |-> "raise", error |-> error, value |-> NoneVal]]

\* A call that ends by returning a value.
Returned(events, value) ==
    [bus |-> events, self |-> self,
     result |-> [status |-> "return", error |-> "", value |-> value]]

(***************************************************************************)
(* The environment of one call: what the adapter does.                     *)
(***************************************************************************)
\* 16-bit words a 3-byte response may carry.
WordSamples == {0, 258, 2047, 63488, 65535}

\* 16-bit words a block of the 9-byte serial number may carry.
IdWordSamples == {0, 258}

\* The 3-byte blocks (word, checksum byte) over the words W: the checksum
\* byte is the right one, or 0x03 (wrong for every sample word).
Blocks(W) ==
    UNION {{<<w \div 256, w % 256, c>> : c \in {_calc_crc(to_bytes(w, 2)), 3}} :
              w \in W}

\* What a read of 3 bytes may return: a full response, or a short one.
Responses3 ==
    Blocks(WordSamples) \cup {SubSeq(<<0, 0, 129>>, 1, k) : k \in 0..2}

\* What a read of 9 bytes may return: a full response, or a short one.
Responses9 ==
    {a \o b \o c : a \in Blocks(IdWordSamples), b \in Blocks(IdWordSamples),
                   c \in Blocks(IdWordSamples)}
    \cup {SubSeq(<<0, 0, 129, 0, 0, 129, 0, 0, 129>>, 1, k) : k \in {0, 3, 8}}

\* What a read of n_bytes bytes may return.
Responses(n_bytes) ==
    CASE n_bytes = 3 -> Responses3
      [] n_bytes = 9 -> Responses9
      [] OTHER -> {}

\* The adapter's part in a call that writes and then reads n_bytes bytes
\* (n_bytes = 0: no read): the write raises; or it succeeds and the read
\* raises; or both succeed and the read returns data.
Env(n_bytes) ==
    {[write_ok |-> FALSE, read_ok |-> FALSE, data |-> <<>>]}
    \cup (IF n_bytes = 0
          THEN {[write_ok |-> TRUE, read_ok |-> FALSE, data |-> <<>>]}
          ELSE {[write_ok |-> TRUE, read_ok |-> FALSE, data |-> <<>>]}
               \cup {[write_ok |-> TRUE, read_ok |-> TRUE, data |-> d] :
                         d \in Responses(n_bytes)})

(***************************************************************************)
(* The methods of SCD4xSensirion.  Each takes its Python arguments and the *)
(* adapter's part env, and gives the bus events of the call, its result    *)
(* and the session after it.  Errors are named by kind: "transport" (the   *)
(* adapter raised), "length" and "checksum" (check_value raised ValueError *)
(* with the length or the CRC message), "overflow" (int.to_bytes raised    *)
(* OverflowError).                                                         *)
(***************************************************************************)
\* SCD4xSensirion._send_command.  value is the byte sequence sent after the
\* command code, <<>> for None or b"".
_send_command(cmd, value, wait_time, bytes_for_read, env) ==
    LET raw_cmd == to_bytes(cmd, 2)
        raw_out == IF value # <<>>
                   THEN raw_cmd \o value \o to_bytes(_calc_crc(value), 1)
                   ELSE raw_cmd
        written == <<_write(raw_out, env.write_ok)>>
        waited == IF wait_time # 0
                  THEN Append(written, sleep_ms(wait_time))
                  ELSE written
        b == env.data
        read == Append(waited, _read(bytes_for_read, b, env.read_ok))
    IN  IF ~env.write_ok THEN Raised(written, "transport")
        ELSE IF bytes_for_read = 0 THEN Returned(waited, NoneVal)
        ELSE IF ~env.read_ok THEN Raised(read, "transport")
        ELSE IF ~check_value(Len(b), {bytes_for_read}) THEN Raised(read, "length")
        ELSE Returned(read, BytesVal(b))

\* SCD4xSensirion.save_config.
save_config(env) ==
    LET cmd == 13845    \* 0x3615
    IN  _send_command(cmd, <<>>, 800, 0, env)

\* get_id reading the checksum bytes one place early (range(1, 9, 3)).
get_id_crc_from_buf_shifted(b) == [k \in 1..3 |-> b[3 * (k - 1) + 1 + 1]]

\* get_id: [b[i] for i in range(2, 9, 3)].
get_id_crc_from_buf(b) == [k \in 1..3 |-> b[3 * (k - 1) + 2 + 1]]

\* get_id: [_calc_crc((b[i], b[i+1])) for i in range(0, 9, 3)].
get_id_calculated_crc(b) ==
    [k \in 1..3 |-> _calc_crc(<<b[3 * (k - 1) + 1], b[3 * (k - 1) + 2]>>)]

\* get_id: tuple([(b[i] << 8) | b[i+1] for i in range(0, 9, 3)]).
get_id_words(b) ==
    [k \in 1..3 |-> b[3 * (k - 1) + 1] * 256 + b[3 * (k - 1) + 2]]

\* get_id comparing the checksums whatever self.check_crc says.
get_id_always_checks(env) ==
    LET cmd == 13954
        sent == _send_command(cmd, <<>>, 0, 9, env)
        b == sent.result.value.v
    IN  IF sent.result.status = "raise" THEN sent
        ELSE IF /\ get_id_crc_from_buf(b) # get_id_calculated_crc(b)
                /\ ~check_value(1, {0})
             THEN Raised(sent.bus, "checksum")
        ELSE Returned(sent.bus, TupleVal(get_id_words(b)))

\* SCD4xSensirion.get_id.
get_id(env) ==
    LET cmd == 13954    \* 0x3682
        sent == _send_command(cmd, <<>>, 0, 9, env)
        b == sent.result.value.v
    IN  IF sent.result.status = "raise" THEN sent
        ELSE IF /\ check_crc
                /\ get_id_crc_from_buf(b) # get_id_calculated_crc(b)
                /\ ~check_value(1, {0})
             THEN Raised(sent.bus, "checksum")
        ELSE Returned(sent.bus, TupleVal(get_id_words(b)))

\* soft_reset sending the factory reset command (0x3632) it was written to
\* avoid.
soft_reset_factory_reset ==
    Returned(<<_write(to_bytes(13874, 2), TRUE), sleep_ms(1200)>>, NoneVal)

\* SCD4xSensirion.soft_reset.
soft_reset == Returned(<<>>, NoneVal)

\* SCD4xSensirion.exec_self_test.
exec_self_test(env) ==
    LET cmd == 13881    \* 0x3639
        written == <<_write(to_bytes(cmd, 2), env.write_ok)>>
        waited == Append(written, sleep_ms(1000 * 10))
        b == env.data
        read == Append(waited, _read(3, b, env.read_ok))
        res == unpack_H(b)
    IN  IF ~env.write_ok THEN Raised(written, "transport")
        ELSE IF ~env.read_ok THEN Raised(read, "transport")
        ELSE IF ~check_value(Len(b), {3}) THEN Raised(read, "length")
        ELSE IF check_crc /\ ~check_value(1, {0}) THEN Raised(read, "checksum")
        ELSE Returned(read, BoolVal(0 = res))

\* reinit writing its command a second time when the first write raised.
reinit_retry(env) ==
    LET cmd == 13894
        written == <<_write(to_bytes(cmd, 2), env.write_ok)>>
        again == Append(written, _write(to_bytes(cmd, 2), TRUE))
    IN  IF ~env.write_ok THEN Returned(Append(again, sleep_ms(20)), NoneVal)
        ELSE Returned(Append(written, sleep_ms(20)), NoneVal)

\* SCD4xSensirion.reinit.
reinit(env) ==
    LET cmd == 13894    \* 0x3646
        written == <<_write(to_bytes(cmd, 2), env.write_ok)>>
    IN  IF ~env.write_ok THEN Raised(written, "transport")
        ELSE Returned(Append(written, sleep_ms(20)), NoneVal)

(***************************************************************************)
(* Exact arithmetic for the float products of the temperature offset: a    *)
(* natural number beyond 32 bits is a sequence of base-10000 digits, the    *)
(* least significant first.                                                *)
(***************************************************************************)
\* The operations bind their operands with \E-style bound variables (xv, yv),
\* so that an operand that is itself a product or a sum is evaluated once.
\* The i-th digit of x, 0 beyond its length.
BigDigit(x, i) == IF i <= Len(x) THEN x[i] ELSE 0

\* A natural number below 2^31 as digits.
BigOf(n) == <<n % 10000, (n \div 10000) % 10000, n \div 100000000>>

\* The number below 2^31 that the digits x stand for.
BigToInt(x) ==
    LET ToInt(xv) ==
            BigDigit(xv, 1) + 10000 * BigDigit(xv, 2)
            + 100000000 * BigDigit(xv, 3)
    IN  CHOOSE r \in {ToInt(xv) : xv \in {x}} : TRUE

\* x * y, by columns and carries.
BigMul(x, y) ==
    LET Mul(xv, yv) ==
            LET L == Len(xv) + Len(yv)
                column(k) ==
                    LET sum[i \in 0..Len(xv)] ==
                            IF i = 0 THEN 0
                            ELSE sum[i - 1]
                                 + (IF (k + 1 - i) \in 1..Len(yv)
                                    THEN xv[i] * yv[k + 1 - i] ELSE 0)
                    IN  sum[Len(xv)]
                total[k \in 1..L] ==
                    column(k) + (IF k = 1 THEN 0 ELSE total[k - 1] \div 10000)
            IN  [k \in 1..L |-> total[k] % 10000]
    IN  CHOOSE r \in {Mul(xv, yv) : xv \in {x}, yv \in {y}} : TRUE

\* x + y.
BigAdd(x, y) ==
    LET Add(xv, yv) ==
            LET L == (IF Len(xv) > Len(yv) THEN Len(xv) ELSE Len(yv)) + 1
                total[k \in 1..L] ==
                    BigDigit(xv, k) + BigDigit(yv, k)
                    + (IF k = 1 THEN 0 ELSE total[k - 1] \div 10000)
            IN  [k \in 1..L |-> total[k] % 10000]
    IN  CHOOSE r \in {Add(xv, yv) : xv \in {x}, yv \in {y}} : TRUE

\* x <= y.
BigLeq(x, y) ==
    LET Leq(xv, yv) ==
            LET L == IF Len(xv) > Len(yv) THEN Len(xv) ELSE Len(yv)
                leq[k \in 0..L] ==
                    IF k = 0 THEN TRUE
                    ELSE IF BigDigit(xv, k) < BigDigit(yv, k) THEN TRUE
                    ELSE IF BigDigit(xv, k) > BigDigit(yv, k) THEN FALSE
                    ELSE leq[k - 1]
            IN  leq[L]
    IN  \E xv \in {x}, yv \in {y} : Leq(xv, yv)

\* x \div d for a divisor d in 1..10000, by long division from the top digit.
BigDivSmall(x, d) ==
    LET Div(xv) ==
            LET L == Len(xv)
                rem[j \in 0..L] ==
                    IF j = 0 THEN 0
                    ELSE (rem[j - 1] * 10000 + xv[L - j + 1]) % d
            IN  [i \in 1..L |-> (rem[L - i] * 10000 + xv[i]) \div d]
    IN  CHOOSE r \in {Div(xv) : xv \in {x}} : TRUE

\* x \div 10000^n.
BigDrop(x, n) == CHOOSE r \in {SubSeq(xv, n + 1, Len(xv)) : xv \in {x}} : TRUE

\* x \div (den * 10^8), for den up to 10000 or a multiple of 10000 up to 10^8.
BigDivScaled(x, den) ==
    BigDivSmall(BigDivSmall(BigDrop(x, 2),
                            IF den > 10000 THEN 10000 ELSE den),
                IF den > 10000 THEN den \div 10000 ELSE 1)

\* The scale 374.49142857 of set_temperature_offset, times 10^8: the digits
\* of 37449142857.
OffsetScale == <<2857, 4914, 374>>

\* int(374.49142857 * offset) for the offset num / den degrees: the product
\* is num * 37449142857 / (den * 10^8), truncated towards zero.  The double
\* product rounds to within 2^-36 of it, which moves no sample across an
\* integer.
offset_to_raw(num, den) ==
    LET magnitude(m) ==
            BigToInt(BigDivScaled(BigMul(BigOf(m), OffsetScale), den))
    IN  IF num >= 0 THEN magnitude(num) ELSE 0 - magnitude(0 - num)

\* SCD4xSensirion.set_temperature_offset, of the offset num / den degrees.
set_temperature_offset(num, den, env) ==
    LET cmd == 9245     \* 0x241D
        offset_raw == offset_to_raw(num, den)
        crc == _calc_crc(to_bytes(offset_raw, 2))
        written == <<_write(to_bytes(cmd, 2) \o to_bytes(offset_raw, 2)
                            \o to_bytes(crc, 1), env.write_ok)>>
    IN  IF env.to_bytes_checked /\ to_bytes_overflows(offset_raw, 2)
        THEN Raised(<<>>, "overflow")
        ELSE IF ~env.write_ok THEN Raised(written, "transport")
        ELSE Returned(Append(written, sleep_ms(1)), NoneVal)

\* 0.0026702880859375 * temp_offs, the value get_temperature_offset returns
\* for the word temp_offs: exactly temp_offs * 175 / 65536.
temperature_offset_of(temp_offs) == FloatVal(175 * temp_offs, 65536)

\* SCD4xSensirion.get_temperature_offset.
get_temperature_offset(env) ==
    LET cmd == 8984     \* 0x2318
        written == <<_write(to_bytes(cmd, 2), env.write_ok)>>
        waited == Append(written, sleep_ms(1))
        b == env.data
        read == Append(waited, _read(3, b, env.read_ok))
        temp_offs == unpack_H(b)
    IN  IF ~env.write_ok THEN Raised(written, "transport")
        ELSE IF ~env.read_ok THEN Raised(read, "transport")
        ELSE IF ~check_value(Len(b), {3}) THEN Raised(read, "length")
        ELSE Returned(read, temperature_offset_of(temp_offs))

\* SCD4xSensirion.set_altitude.
set_altitude(masl, env) ==
    LET cmd == 9255     \* 0x2427
        masl_raw == to_bytes(masl, 2)
        crc == _calc_crc(masl_raw)
        written == <<_write(to_bytes(cmd, 2) \o masl_raw \o to_bytes(crc, 1),
                            env.write_ok)>>
    IN  IF env.to_bytes_checked /\ to_bytes_overflows(masl, 2)
        THEN Raised(<<>>, "overflow")
        ELSE IF ~env.write_ok THEN Raised(written, "transport")
        ELSE Returned(Append(written, sleep_ms(1)), NoneVal)

\* get_altitude accepting a response of the word alone (2 bytes) as well.
get_altitude_word_only(env) ==
    LET cmd == 8994
        written == <<_write(to_bytes(cmd, 2), env.write_ok)>>
        waited == Append(written, sleep_ms(1))
        b == env.data
        read == Append(waited, _read(3, b, env.read_ok))
    IN  IF ~env.write_ok THEN Raised(written, "transport")
        ELSE IF ~env.read_ok THEN Raised(read, "transport")
        ELSE IF ~check_value(Len(b), {2, 3}) THEN Raised(read, "length")
        ELSE Returned(read, IntVal(unpack_H(b)))

\* SCD4xSensirion.get_altitude.
get_altitude(env) ==
    LET cmd == 8994     \* 0x2322
        written == <<_write(to_bytes(cmd, 2), env.write_ok)>>
        waited == Append(written, sleep_ms(1))
        b == env.data
        read == Append(waited, _read(3, b, env.read_ok))
    IN  IF ~env.write_ok THEN Raised(written, "transport")
        ELSE IF ~env.read_ok THEN Raised(read, "transport")
        ELSE IF ~check_value(Len(b), {3}) THEN Raised(read, "length")
        ELSE Returned(read, IntVal(unpack_H(b)))

\* SCD4xSensirion.set_ambient_pressure, of a pressure in whole pascals.
set_ambient_pressure(pressure, env) ==
    LET cmd == 57344    \* 0xE000
        press == pressure \div 100
        press_raw == to_bytes(press, 2)
        crc == _calc_crc(press_raw)
        written == <<_write(to_bytes(cmd, 2) \o press_raw \o to_bytes(crc, 1),
                            env.write_ok)>>
    IN  IF env.to_bytes_checked /\ to_bytes_overflows(press, 2)
        THEN Raised(<<>>, "overflow")
        ELSE IF ~env.write_ok THEN Raised(written, "transport")
        ELSE Returned(Append(written, sleep_ms(1)), NoneVal)

\* periodic_measurement with the two start commands exchanged.
periodic_measurement_cmd_swapped(start) ==
    IF start
    THEN (IF _low_power_mode THEN 8625 ELSE 8620)
    ELSE 16262

\* periodic_measurement: the command code chosen.
periodic_measurement_cmd(start) ==
    IF start
    THEN (IF _low_power_mode THEN 8620 ELSE 8625)   \* 0x21AC, 0x21B1
    ELSE 16262                                      \* 0x3F86

\* periodic_measurement recording in the session that it runs in low power
\* mode.
periodic_measurement_sets_mode(start, env) ==
    LET cmd == periodic_measurement_cmd(start)
        written == <<_write(to_bytes(cmd, 2), env.write_ok)>>
    IN  IF ~env.write_ok THEN Raised(written, "transport")
        ELSE [Returned(written, NoneVal) EXCEPT !.self._low_power_mode = start]

\* SCD4xSensirion.periodic_measurement.
periodic_measurement(start, env) ==
    LET cmd == periodic_measurement_cmd(start)
        written == <<_write(to_bytes(cmd, 2), env.write_ok)>>
    IN  IF ~env.write_ok THEN Raised(written, "transport")
        ELSE Returned(written, NoneVal)

\* SCD4xSensirion.is_data_ready: the command code is assigned and never
\* written; the method returns the unpacked word itself.
is_data_ready(env) ==
    LET cmd == 58552    \* 0xE4B8
        waited == <<sleep_ms(1)>>
        b == env.data
        read == Append(waited, _read(3, b, env.read_ok))
    IN  IF ~env.read_ok THEN Raised(read, "transport")
        ELSE IF ~check_value(Len(b), {3}) THEN Raised(read, "length")
        ELSE Returned(read, IntVal(unpack_H(b)))

(***************************************************************************)
(* The inputs of the calls.                                                *)
(***************************************************************************)
\* Bus addresses a session may be constructed with: the default 0x62, and
\* another one.
AddressSamples == {98, 105}

\* The adapter's part in a setter's call, and the interpreter's: whether its
\* int.to_bytes raises OverflowError for a value that does not fit (CPython
\* and recent MicroPython do, older MicroPython keeps the low bytes).
SetterEnv ==
    {[write_ok |-> w, to_bytes_checked |-> c] : w \in BOOLEAN, c \in BOOLEAN}

\* Offsets given to set_temperature_offset, as <<num, den>> for num / den
\* degrees: 0, 4.0, 0.001, 175.0 (the largest that fits), 176.0, -0.001, -0.1,
\* and 51.3256073, whose product 19220.9999999996 lies just under an integer.
OffsetSamples ==
    {<<0, 10>>, <<40, 10>>, <<1, 1000>>, <<1750, 10>>, <<1760, 10>>,
     <<-1, 1000>>, <<-1, 10>>, <<513256073, 10000000>>}

\* Altitudes given to set_altitude.
AltitudeSamples == {0, 258, 65535, 65536, -1}

\* Pressures given to set_ambient_pressure, in pascals.
PressureSamples == {0, 101325, 6553599, 6553600, -1}

\* Words of the payloads given to _send_command: 0x0102 and 0xBEEF.
PayloadWordSamples == {258, 48879}

RECURSIVE words_to_bytes(_)
\* The bytes of a sequence of 16-bit words, each big-endian.
words_to_bytes(ws) ==
    IF ws = <<>> THEN <<>>
    ELSE to_bytes(Head(ws), 2) \o words_to_bytes(Tail(ws))

\* Payloads given to _send_command: up to MaxWords words.
Payloads ==
    {words_to_bytes(ws) :
        ws \in UNION {[1..k -> PayloadWordSamples] : k \in 0..MaxWords}}

\* Arguments <<cmd, value, wait_time, bytes_for_read>> given to
\* _send_command: every payload with and without a wait and no response;
\* no payload or one word, with a 3-byte response.
SendCommandSamples ==
    {<<13845, value, wait_time, 0>> : value \in Payloads, wait_time \in {0, 1}}
    \cup {<<13954, <<>>, 0, 3>>, <<13954, <<>>, 1, 3>>, <<13954, <<1, 2>>, 1, 3>>}

(***************************************************************************)
(* The state machine: one action per method.                               *)
(***************************************************************************)
\* SCD4xSensirion.__init__(adapter, address=0x62, check_crc=True).
Init ==
    /\ address \in AddressSamples
    /\ check_crc \in BOOLEAN
    /\ _low_power_mode = FALSE
    /\ _single_shot_mode = FALSE
    /\ n_calls = 0
    /\ op = ""
    /\ args = <<>>
    /\ bus = <<>>
    /\ result = [status |-> "return", error |-> "", value |-> NoneVal]

\* One call of method name with arguments a, whose outcome is r.
Call(name, a, r) ==
    /\ n_calls < MaxCalls
    /\ n_calls' = n_calls + 1
    /\ op' = name
    /\ args' = a
    /\ bus' = r.bus
    /\ result' = r.result
    /\ address' = r.self.address
    /\ check_crc' = r.self.check_crc
    /\ _low_power_mode' = r.self._low_power_mode
    /\ _single_shot_mode' = r.self._single_shot_mode

Call_send_command ==
    \E a \in SendCommandSamples :
        \E env \in Env(a[4]) :
            Call("_send_command", a, _send_command(a[1], a[2], a[3], a[4], env))

Call_save_config ==
    \E env \in Env(0) : Call("save_config", <<>>, save_config(env))

Call_get_id ==
    \E env \in Env(9) : Call("get_id", <<>>, get_id(env))

Call_soft_reset ==
    Call("soft_reset", <<>>, soft_reset)

Call_exec_self_test ==
    \E env \in Env(3) : Call("exec_self_test", <<>>, exec_self_test(env))

Call_reinit ==
    \E env \in Env(0) : Call("reinit", <<>>, reinit(env))

Call_set_temperature_offset ==
    \E offset \in OffsetSamples, env \in SetterEnv :
        Call("set_temperature_offset", offset,
             set_temperature_offset(offset[1], offset[2], env))

Call_get_temperature_offset ==
    \E env \in Env(3) :
        Call("get_temperature_offset", <<>>, get_temperature_offset(env))

Call_set_altitude ==
    \E masl \in AltitudeSamples, env \in SetterEnv :
        Call("set_altitude", <<masl>>, set_altitude(masl, env))

Call_get_altitude ==
    \E env \in Env(3) : Call("get_altitude", <<>>, get_altitude(env))

Call_set_ambient_pressure ==
    \E pressure \in PressureSamples, env \in SetterEnv :
        Call("set_ambient_pressure", <<pressure>>,
             set_ambient_pressure(pressure, env))

Call_periodic_measurement ==
    \E start \in BOOLEAN, env \in Env(0) :
        Call("periodic_measurement", <<start>>, periodic_measurement(start, env))

\* The adapter's write is never called by is_data_ready: only the read's
\* outcomes are drawn.
Call_is_data_ready ==
    \E env \in {e \in Env(3) : e.write_ok} :
        Call("is_data_ready", <<>>, is_data_ready(env))

Next ==
    \/ Call_send_command
    \/ Call_save_config
    \/ Call_get_id
    \/ Call_soft_reset
    \/ Call_exec_self_test
    \/ Call_reinit
    \/ Call_set_temperature_offset
    \/ Call_get_temperature_offset
    \/ Call_set_altitude
    \/ Call_get_altitude
    \/ Call_set_ambient_pressure
    \/ Call_periodic_measurement
    \/ Call_is_data_ready

Spec == Init /\ [][Next]_vars

\* A session whose owner has set the mode flags after construction: no
\* method of the class sets them, and periodic_measurement reads
\* _low_power_mode.
InitAnyMode ==
    /\ address \in AddressSamples
    /\ check_crc \in BOOLEAN
    /\ _low_power_mode \in BOOLEAN
    /\ _single_shot_mode \in BOOLEAN
    /\ n_calls = 0
    /\ op = ""
    /\ args = <<>>
    /\ bus = <<>>
    /\ result = [status |-> "return", error |-> "", value |-> NoneVal]

\* The calls that do not depend on what the sensor answers.
NextAnyMode ==
    \/ Call_periodic_measurement
    \/ Call_soft_reset
    \/ Call_reinit
    \/ Call_save_config

SpecAnyMode == InitAnyMode /\ [][NextAnyMode]_vars

(***************************************************************************)
(* What a call looks like from outside: used to state the properties.      *)
(***************************************************************************)
\* The events of one kind ("write", "read", "sleep") of the last call.
EventsOf(kind) == SelectSeq(bus, LAMBDA e : e.ev = kind)

\* The last call read from the adapter and the adapter returned bytes.
GotResponse == \E i \in 1..Len(bus) : bus[i].ev = "read" /\ bus[i].ok

\* The bytes the adapter returned to the last call.
Response == EventsOf("read")[1].data

\* The word and the checksum byte of the k-th 3-byte block (k = 0, 1, 2) of
\* a response, and the checksum its two data bytes should carry.
BlockWord(b, k) == b[3 * k + 1] * 256 + b[3 * k + 2]
BlockCrc(b, k) == b[3 * k + 3]
BlockCrcExpected(b, k) == crc8(<<b[3 * k + 1], b[3 * k + 2]>>, 49, 255)

\* The methods that read a response, with the command code and the response
\* length the operation catalog gives each.
ReadingOps ==
    {"get_id", "exec_self_test", "get_temperature_offset", "get_altitude",
     "is_data_ready"}
CatalogOpcode(name) ==
    CASE name = "get_id" -> 13954                   \* 0x3682
      [] name = "exec_self_test" -> 13881           \* 0x3639
      [] name = "get_temperature_offset" -> 8984    \* 0x2318
      [] name = "get_altitude" -> 8994              \* 0x2322
      [] name = "is_data_ready" -> 58552            \* 0xE4B8
CatalogResponseLength(name) == IF name = "get_id" THEN 9 ELSE 3

\* The result of a call that returned value, and of one that raised error.
ReturnOf(value) == [status |-> "return", error |-> "", value |-> value]
RaiseOf(error) == [status |-> "raise", error |-> error, value |-> NoneVal]

(***************************************************************************)
(* Properties.                                                             *)
(***************************************************************************)
\* C1: is_data_ready, given a full 3-byte response, returns a true value
\* exactly when the low 11 bits of the response word are not all zero
\* ((word & 0x07FF) != 0); the high 5 bits do not count.
C1_ReadyIffLow11Bits ==
    (op = "is_data_ready" /\ GotResponse /\ Len(Response) = 3)
        => /\ result.status = "return"
           /\ Truthy(result.value) <=> (BlockWord(Response, 0) % 2048 # 0)

\* C2: in a call of a method that reads a response, every read of the
\* adapter comes after a write, in the same call, of the method's 2-byte
\* big-endian command code; and no method at all reads before it has written.
C2_ReadAfterOpcodeWrite ==
    \A i \in 1..Len(bus) :
        bus[i].ev = "read"
            => \E j \in 1..(i - 1) :
                   /\ bus[j].ev = "write"
                   /\ op \in ReadingOps
                        => bus[j].data = <<CatalogOpcode(op) \div 256,
                                           CatalogOpcode(op) % 256>>

\* C3: exec_self_test, given a full 3-byte response whose checksum byte is
\* the checksum of its two data bytes, returns true when the word is 0 and
\* false when it is not, whether or not check_crc is set.
C3_SelfTestTrueIffZero ==
    (/\ op = "exec_self_test" /\ GotResponse /\ Len(Response) = 3
     /\ BlockCrc(Response, 0) = BlockCrcExpected(Response, 0))
        => /\ result.status = "return"
           /\ result.value.t = "bool"
           /\ result.value.v = (BlockWord(Response, 0) = 0)

\* C4: with check_crc set, get_id on a 9-byte response compares the bytes at
\* offsets 2, 5 and 8 with the checksums of the byte pairs at offsets (0,1),
\* (3,4) and (6,7): it raises the checksum error exactly when at least one of
\* the three differs, and otherwise returns the three words in order.
C4_GetIdChecksPerWord ==
    (op = "get_id" /\ check_crc /\ GotResponse /\ Len(Response) = 9)
        => LET b == Response
               mismatch ==
                   \E k \in 0..2 : BlockCrc(b, k) # BlockCrcExpected(b, k)
           IN  /\ mismatch => result = RaiseOf("checksum")
               /\ ~mismatch
                    => result = ReturnOf(TupleVal(<<BlockWord(b, 0),
                                                    BlockWord(b, 1),
                                                    BlockWord(b, 2)>>))

\* C4 happens: get_id raised the checksum error on a response in which only
\* the byte at offset 5 is wrong.
C4_Witness ==
    /\ op = "get_id" /\ check_crc /\ GotResponse /\ Len(Response) = 9
    /\ BlockCrc(Response, 0) = BlockCrcExpected(Response, 0)
    /\ BlockCrc(Response, 1) # BlockCrcExpected(Response, 1)
    /\ BlockCrc(Response, 2) = BlockCrcExpected(Response, 2)
    /\ BlockWord(Response, 0) # BlockWord(Response, 1)
    /\ result = RaiseOf("checksum")

\* C5: with check_crc set, get_altitude on a 3-byte response (d0, d1, c)
\* returns the word d0<<8|d1 when c is the checksum of (d0, d1) and raises
\* the checksum error when it is not.
C5_GetAltitudeChecksCrc ==
    (op = "get_altitude" /\ check_crc /\ GotResponse /\ Len(Response) = 3)
        => IF BlockCrc(Response, 0) = BlockCrcExpected(Response, 0)
           THEN result = ReturnOf(IntVal(BlockWord(Response, 0)))
           ELSE result = RaiseOf("checksum")

\* C6: when the adapter returns fewer bytes than the response length of the
\* method that reads (9 for get_id, 3 for the others), the call raises the
\* length error and returns nothing, whether or not check_crc is set.
C6_ShortReadRaises ==
    (/\ op \in ReadingOps /\ GotResponse
     /\ Len(Response) < CatalogResponseLength(op))
        => result = RaiseOf("length")

\* C6 happens: get_altitude got 2 of its 3 bytes, without check_crc, and
\* raised the length error.
C6_Witness ==
    /\ op = "get_altitude" /\ ~check_crc /\ GotResponse
    /\ Len(Response) = 2
    /\ result = RaiseOf("length")

\* The methods that send a payload word: the three setters.
Setters == {"set_temperature_offset", "set_altitude", "set_ambient_pressure"}

\* C7: in every frame written by _send_command or by a setter, each 2-byte
\* payload word is followed at once by its own checksum: a payload of N words
\* gives a frame of 2 + 3N bytes, never one checksum over the whole payload.
C7_ChecksumPerPayloadWord ==
    \A i \in 1..Len(bus) :
        (bus[i].ev = "write" /\ op \in Setters \cup {"_send_command"})
            => LET frame == bus[i].data
                   N == IF op = "_send_command" THEN Len(args[2]) \div 2 ELSE 1
               IN  /\ Len(frame) = 2 + 3 * N
                   /\ \A k \in 0..(N - 1) :
                        /\ op = "_send_command"
                             => /\ frame[2 + 3 * k + 1] = args[2][2 * k + 1]
                                /\ frame[2 + 3 * k + 2] = args[2][2 * k + 2]
                        /\ frame[2 + 3 * k + 3]
                             = crc8(<<frame[2 + 3 * k + 1],
                                      frame[2 + 3 * k + 2]>>, 49, 255)

\* C8: a soft_reset call, in any session and after any calls, makes no
\* write and no read on the adapter (no bus event at all), returns None and
\* leaves every attribute of the session as it was.
C8_SoftResetEmitsNothing ==
    [][(op' = "soft_reset" /\ n_calls' = n_calls + 1)
           => /\ bus' = <<>>
              /\ result' = ReturnOf(NoneVal)
              /\ UNCHANGED <<address, check_crc, _low_power_mode,
                             _single_shot_mode>>]_vars

\* C8 happens: soft_reset was called after another call.
C8_Witness ==
    op = "soft_reset" /\ n_calls = 2 /\ bus = <<>>

\* C9: no call retries: a call writes to the adapter at most once and reads
\* from it at most once, an adapter call that raised is the last event of the
\* call, and nothing is written or read after the read.
C9_NoRetries ==
    /\ Len(EventsOf("write")) <= 1
    /\ Len(EventsOf("read")) <= 1
    /\ \A i \in 1..Len(bus) : ~bus[i].ok => i = Len(bus)
    /\ \A i \in 1..Len(bus) :
           bus[i].ev = "read"
               => \A j \in (i + 1)..Len(bus) : bus[j].ev \notin {"write", "read"}
    /\ (\E i \in 1..Len(bus) : ~bus[i].ok) => result = RaiseOf("transport")

\* C9 happens: a call whose write raised ended there, and a call whose read
\* came back short ended with the length error after one write and one read.
C9_Witness ==
    \/ /\ op = "reinit" /\ Len(bus) = 1 /\ ~bus[1].ok
       /\ result = RaiseOf("transport")
    \/ /\ op = "get_id" /\ result = RaiseOf("length")
       /\ Len(EventsOf("write")) = 1 /\ Len(EventsOf("read")) = 1

\* C10: periodic_measurement(True) writes exactly the 2-byte frame 0x21AC
\* when _low_power_mode is set and 0x21B1 when it is not,
\* periodic_measurement(False) writes exactly 0x3F86; nothing else is
\* written, nothing is read, and the mode flags stay as they were.
C10_PeriodicOpcode ==
    [][(op' = "periodic_measurement" /\ n_calls' = n_calls + 1)
           => LET expected ==
                      IF args'[1]
                      THEN (IF _low_power_mode THEN <<33, 172>> ELSE <<33, 177>>)
                      ELSE <<63, 134>>
              IN  /\ Len(bus') = 1
                  /\ bus'[1].ev = "write"
                  /\ bus'[1].data = expected
                  /\ UNCHANGED <<_low_power_mode, _single_shot_mode>>]_vars

\* C10 happens: a low-power session started periodic measurement and 0x21AC
\* went out.
C10_Witness ==
    /\ op = "periodic_measurement" /\ args = <<TRUE>> /\ _low_power_mode
    /\ bus[1].ok /\ bus[1].data = <<33, 172>>
    /\ result = ReturnOf(NoneVal)

\* The frame the last call wrote, and the payload word it carries after the
\* 2-byte command code.
WrittenFrame == EventsOf("write")[1].data
WrittenWord == WrittenFrame[3] * 256 + WrittenFrame[4]

\* The last call was set_temperature_offset with a non-negative offset whose
\* encoded word fits in 16 bits, and its frame went out.
OffsetWritten ==
    /\ op = "set_temperature_offset"
    /\ args[1] >= 0
    /\ offset_to_raw(args[1], args[2]) <= 65535
    /\ EventsOf("write") # <<>>

\* C11: for every non-negative offset whose encoded word fits in 16 bits,
\* decoding as get_temperature_offset does (word * 0.0026702880859375) the
\* word set_temperature_offset put on the wire gives a value within one
\* encoding quantum, 1 / 374.49142857 degrees, of the offset.  With the
\* offset num / den and the decoded value p / q the distance is
\* |num * q - p * den| / (den * q), so the bound is
\* |num * q - p * den| * 37449142857 <= 10^8 * den * q.
C11_RoundTripWithinQuantum ==
    OffsetWritten =>
        LET decoded == temperature_offset_of(WrittenWord)
            given == BigMul(BigMul(BigOf(args[1]), BigOf(decoded.den)),
                            OffsetScale)
            back == BigMul(BigMul(BigOf(decoded.num), BigOf(args[2])),
                           OffsetScale)
            quantum == BigMul(BigMul(<<0, 0, 1>>, BigOf(args[2])),
                              BigOf(decoded.den))
        IN  /\ BigLeq(given, BigAdd(back, quantum))
            /\ BigLeq(back, BigAdd(given, quantum))

\* C12: the frame set_temperature_offset writes is the command code 0x241D,
\* the word nearest to offset * 374.49142857 (1498 for 4.0) and that word's
\* checksum.  A word w is nearest to num * 37449142857 / (den * 10^8) when
\* twice their distance is at most 1.
C12_OffsetWordIsNearest ==
    OffsetWritten =>
        LET scaled2 == BigMul(BigOf(2 * args[1]), OffsetScale)
            word2 == BigMul(BigMul(BigOf(2 * WrittenWord), BigOf(args[2])),
                            <<0, 0, 1>>)
            one == BigMul(BigOf(args[2]), <<0, 0, 1>>)
        IN  /\ Len(WrittenFrame) = 5
            /\ SubSeq(WrittenFrame, 1, 2) = <<36, 29>>
            /\ WrittenFrame[5] = crc8(SubSeq(WrittenFrame, 3, 4), 49, 255)
            /\ BigLeq(word2, BigAdd(scaled2, one))
            /\ BigLeq(scaled2, BigAdd(word2, one))

\* A full-length response of the last call has a 3-byte block whose checksum
\* byte is not the checksum of its word.
BadBlock(b) ==
    \E k \in 0..((Len(b) \div 3) - 1) : BlockCrc(b, k) # BlockCrcExpected(b, k)

\* C13: with checksum enforcement enabled, _send_command validates every
\* 3-byte (word, checksum) block of the response it read: it fails with a
\* checksum-mismatch error when a block disagrees, and never returns a
\* buffer that holds a word with a wrong checksum byte.
C13_SendCommandValidatesBlocks ==
    (/\ op = "_send_command" /\ check_crc
     /\ GotResponse /\ Len(Response) = args[4])
        => IF BadBlock(Response)
           THEN result = RaiseOf("checksum")
           ELSE result = ReturnOf(BytesVal(Response))

\* The methods with a wait in the command table, and that wait in ms.
WaitingOps ==
    {"save_config", "get_id", "exec_self_test", "reinit",
     "set_temperature_offset", "get_temperature_offset", "set_altitude",
     "get_altitude", "set_ambient_pressure", "is_data_ready"}
CatalogWait(name) ==
    CASE name = "save_config" -> 800
      [] name = "exec_self_test" -> 10000
      [] name = "reinit" -> 20
      [] OTHER -> 1

\* C14: every method with a non-zero wait in the command table suspends for
\* exactly that time after its write and before any read or return (800 ms
\* save_config, 1 ms get_id, 10 000 ms exec_self_test, 20 ms reinit, 1 ms
\* the setters, get_temperature_offset, get_altitude and is_data_ready), and
\* never waits before the write.
C14_WaitFollowsWrite ==
    op \in WaitingOps =>
        /\ \A i \in 1..Len(bus) :
               (bus[i].ev = "write" /\ bus[i].ok)
                   => /\ i < Len(bus)
                      /\ bus[i + 1].ev = "sleep"
                      /\ bus[i + 1].ms = CatalogWait(op)
        /\ \A i \in 1..Len(bus) :
               bus[i].ev = "sleep"
                   => /\ i > 1
                      /\ bus[i - 1].ev = "write"
                      /\ bus[i].ms = CatalogWait(op)

\* Whether the events evs of a call of method o hold a full-length response,
\* that response, and its data words (the checksum bytes left out).
FullResponse(o, evs) ==
    /\ o \in ReadingOps
    /\ \E i \in 1..Len(evs) :
           /\ evs[i].ev = "read" /\ evs[i].ok
           /\ Len(evs[i].data) = CatalogResponseLength(o)
ResponseOf(evs) == SelectSeq(evs, LAMBDA e : e.ev = "read")[1].data
DataWords(b) == [k \in 1..(Len(b) \div 3) |-> BlockWord(b, k - 1)]

\* C15: with checksum enforcement disabled no method fails with the checksum
\* error, and get_id, exec_self_test, get_temperature_offset, get_altitude
\* and is_data_ready, given a full-length response, return whatever its
\* checksum bytes are, a value decoded from the data bytes alone: the three
\* words, word = 0, word * 175 / 65536, the word; and two calls of one
\* method whose responses agree in the data bytes return the same value.
C15_NoChecksumErrorWhenDisabled ==
    [][~check_crc' =>
        /\ result'.error # "checksum"
        /\ FullResponse(op', bus') =>
            LET b == ResponseOf(bus')
                word == BlockWord(b, 0)
            IN  /\ result'.status = "return"
                /\ op' = "get_id" => result'.value = TupleVal(DataWords(b))
                /\ op' = "exec_self_test" => result'.value = BoolVal(word = 0)
                /\ op' = "get_temperature_offset"
                       => result'.value = FloatVal(175 * word, 65536)
                /\ op' = "get_altitude" => result'.value = IntVal(word)
                /\ (/\ op = op' /\ ~check_crc /\ FullResponse(op, bus)
                    /\ DataWords(ResponseOf(bus)) = DataWords(b))
                       => result' = result]_vars

\* C15 happens: without enforcement get_id returned the three words of a
\* response whose second checksum byte is wrong, and is_data_ready the word
\* of a response whose checksum byte is wrong.
C15_Witness ==
    /\ ~check_crc /\ FullResponse(op, bus) /\ BadBlock(Response)
    /\ \/ /\ op = "get_id"
          /\ BlockCrc(Response, 1) # BlockCrcExpected(Response, 1)
          /\ result = ReturnOf(TupleVal(DataWords(Response)))
       \/ /\ op = "is_data_ready" /\ n_calls = 2
          /\ result.status = "return"

\* C16: the session configuration is immutable after construction: no call,
\* whether it returns or raises, changes the device address or the checksum
\* enforcement flag, and the low-power and single-shot flags stay false as
\* the constructor set them.
C16_SessionImmutable ==
    [][/\ address' = address
       /\ check_crc' = check_crc
       /\ _low_power_mode' = _low_power_mode /\ ~_low_power_mode'
       /\ _single_shot_mode' = _single_shot_mode /\ ~_single_shot_mode']_vars

\* C16 happens: a session constructed with a non-default address and with
\* enforcement on is as constructed after two calls, the last of which
\* started periodic measurement.
C16_Witness ==
    /\ n_calls >= 2 /\ op = "periodic_measurement" /\ args = <<TRUE>>
    /\ result = ReturnOf(NoneVal)
    /\ address = 105 /\ check_crc
    /\ ~_low_power_mode /\ ~_single_shot_mode

\* The command code of a setter, and whether the argument of the last call
\* of one has no unsigned 16-bit encoding: it is negative, or its scaled
\* value is above 65535.
SetterOpcode(name) ==
    CASE name = "set_temperature_offset" -> 9245    \* 0x241D
      [] name = "set_altitude" -> 9255              \* 0x2427
      [] name = "set_ambient_pressure" -> 57344     \* 0xE000
Unencodable ==
    CASE op = "set_temperature_offset" ->
             args[1] < 0 \/ offset_to_raw(args[1], args[2]) > 65535
      [] op = "set_altitude" -> args[1] < 0 \/ args[1] > 65535
      [] op = "set_ambient_pressure" ->
             args[1] < 0 \/ (args[1] \div 100) > 65535

\* C17: every frame a setter writes is exactly 5 bytes, the 2-byte command
\* code, one 2-byte word and that word's checksum; and when the argument
\* cannot be encoded as an unsigned 16-bit word the call fails before any
\* write, so nothing is sent.
C17_SetterWritesWholeFrameOrNothing ==
    op \in Setters =>
        /\ \A i \in 1..Len(bus) :
               bus[i].ev = "write"
                   => /\ Len(bus[i].data) = 5
                      /\ SubSeq(bus[i].data, 1, 2)
                             = <<SetterOpcode(op) \div 256,
                                 SetterOpcode(op) % 256>>
                      /\ bus[i].data[5]
                             = crc8(SubSeq(bus[i].data, 3, 4), 49, 255)
        /\ Unencodable => (bus = <<>> /\ result.status = "raise")

====
